---- MODULE Spec2Model ----
(***************************************************************************)
(* A model of the Pints functional-testing harness (pfunk):                *)
(*   - revision resolution, pfunk/__init__.py prepare_pints                *)
(*   - the test/plot name format, pfunk/__init__.py NAME_FORMAT            *)
(*   - the two concrete tests, pfunk/tests/mcmc_banana.py (MCMCBanana)     *)
(*     and pfunk/tests/geweke_mcmc.py (Geweke)                             *)
(* The runner, the result store and the deviation check live in modules    *)
(* (pfunk.test, pfunk.io) that the tests call; they are modelled from the  *)
(* harness specification (sections 4.2, 4.4 and 4.5).                      *)
(*                                                                         *)
(* Strings the program builds or matches are sequences of one-character    *)
(* strings. Python's None is the empty tuple and a value v is <<v>>.       *)
(***************************************************************************)
EXTENDS Integers, Sequences, FiniteSets, TLC

VARIABLES
    \* -- revision resolution (pfunk/__init__.py) --
    PINTS_COMMIT,     \* module global: None or <<hash>>
    PINTS_VERSION,    \* module global: None or <<version>>
    remote_head,      \* newest commit of the upstream Pints repository
    local_head,       \* commit checked out in DIR_PINTS_REPO (0: stale clone)
    refresh_calls,    \* number of git.pints_refresh() invocations
    hash_calls,       \* number of git.pints_hash() invocations
    prepare_calls,    \* number of prepare_pints() invocations
    \* -- name validation (pfunk/__init__.py NAME_FORMAT) --
    name_arg,         \* the name handed to validation
    name_result,      \* "unchecked", "accepted" or "InvalidNameError"
    \* -- test construction (MCMCBanana.__init__, Geweke.__init__) --
    tests,            \* the test instances constructed so far
    ctor_error,       \* whether the last constructor call raised
    \* -- one harness process running tests (runner, store, _run, _analyse) --
    store,            \* the result store: test name -> stored history
    pc,               \* "idle", "running", "returned" or "raised"
    cur,              \* the test being run (an element of tests), or None
    result,           \* the result object handed to _run
    step,             \* index of the next write of _run
    start_len,        \* length of the test's history when the run started
    clock,            \* completion counter, the run date of the next record
    run_exit,         \* how the last _run ended: "returned" or "raised"
    verdict,          \* what the last run's analysis returned
    seen,             \* a history some reader obtained earlier, with its name
    \* -- the deviation check applied to a given history --
    a_history,        \* the history handed to the check
    a_expected,       \* the baseline
    a_threshold,      \* the tolerance (a test's pass_threshold)
    a_call,           \* "none", "not_deviated" or "analyse"
    a_return,         \* what the call returned
    \* -- Geweke._successive_conditional_simulator, one call --
    g_method,         \* the sampler class handed in as `method`
    g_nchains,        \* self._nchains
    g_pc,             \* the statement the call is at
    g_i,              \* the loop variable of the initial phase
    g_x,              \* what the last ask() returned, None once told
    g_ctor,           \* how the sampler was constructed
    g_initial_phase,  \* the sampler's initial-phase flag
    g_asks,           \* number of ask() calls
    g_tells,          \* number of tell() calls
    g_phase_pairs,    \* ask/tell pairs made while in the initial phase
    g_told,           \* the shapes of the arguments tell() received
    \* -- MCMCBanana._run, the sliding-window series --
    w_nchains,        \* self._nchains
    w_max_iter,       \* self._max_iter
    w_pc,             \* "start" or "done"
    w_n_samples,      \* len(chain) of the woven chain
    w_iters,          \* result['iters']
    w_klds            \* result['klds'], each entry the size of its window

revVars == <<PINTS_COMMIT, PINTS_VERSION, remote_head, local_head,
             refresh_calls, hash_calls, prepare_calls>>

nameVars == <<name_arg, name_result>>
idVars == <<tests, ctor_error>>

runVars == <<store, pc, cur, result, step, start_len, clock, run_exit,
             verdict, seen>>

devVars == <<a_history, a_expected, a_threshold, a_call, a_return>>

gewVars == <<g_method, g_nchains, g_pc, g_i, g_x, g_ctor, g_initial_phase,
             g_asks, g_tells, g_phase_pairs, g_told>>

winVars == <<w_nchains, w_max_iter, w_pc, w_n_samples, w_iters, w_klds>>

vars == <<revVars, nameVars, idVars, runVars, devVars, gewVars, winVars>>

\* What an action of one part leaves alone.
exceptRev == <<nameVars, idVars, runVars, devVars, gewVars, winVars>>
exceptName == <<revVars, idVars, runVars, devVars, gewVars, winVars>>
exceptId == <<revVars, nameVars, runVars, devVars, gewVars, winVars>>
exceptRun == <<revVars, nameVars, devVars, gewVars, winVars>>
exceptDev == <<revVars, nameVars, idVars, runVars, gewVars, winVars>>
exceptGew == <<revVars, nameVars, idVars, runVars, devVars, winVars>>
exceptWin == <<revVars, nameVars, idVars, runVars, devVars, gewVars>>

None == <<>>
Some(v) == <<v>>

\* The values each part of the state keeps in the specifications that
\* exercise another part.
RevIdle ==
    /\ PINTS_COMMIT = Some(1)
    /\ PINTS_VERSION = Some(0)
    /\ remote_head = 1
    /\ local_head = 1
    /\ refresh_calls = 1
    /\ hash_calls = 1
    /\ prepare_calls = 1

NameIdle ==
    /\ name_arg = <<>>
    /\ name_result = "unchecked"

IdIdle ==
    /\ tests = {}
    /\ ctor_error = FALSE

RunIdle ==
    /\ store = <<>>
    /\ pc = "idle"
    /\ cur = None
    /\ result = None
    /\ step = 1
    /\ start_len = 0
    /\ clock = 1
    /\ run_exit = "none"
    /\ verdict = "none"
    /\ seen = [name |-> <<>>, history |-> <<>>]

DevIdle ==
    /\ a_history = <<>>
    /\ a_expected = 0
    /\ a_threshold = 0
    /\ a_call = "none"
    /\ a_return = "none"

GewIdle ==
    /\ g_method = None
    /\ g_nchains = 1
    /\ g_pc = "done"
    /\ g_i = 0
    /\ g_x = None
    /\ g_ctor = None
    /\ g_initial_phase = FALSE
    /\ g_asks = 0
    /\ g_tells = 0
    /\ g_phase_pairs = 0
    /\ g_told = {}

WinIdle ==
    /\ w_nchains = 1
    /\ w_max_iter = 0
    /\ w_pc = "done"
    /\ w_n_samples = 0
    /\ w_iters = <<>>
    /\ w_klds = <<>>

Max(a, b) == IF a >= b THEN a ELSE b
Min(a, b) == IF a <= b THEN a ELSE b

(***************************************************************************)
(* Names: the name format and the names the tests build                    *)
(***************************************************************************)
LowerCase == {"a", "b", "c", "d", "e", "f", "g", "h", "i", "j", "k", "l", "m",
              "n", "o", "p", "q", "r", "s", "t", "u", "v", "w", "x", "y", "z"}
UpperCase == {"A", "B", "C", "D", "E", "F", "G", "H", "I", "J", "K", "L", "M",
              "N", "O", "P", "Q", "R", "S", "T", "U", "V", "W", "X", "Y", "Z"}
DigitChars == <<"0", "1", "2", "3", "4", "5", "6", "7", "8", "9">>
Digit == {DigitChars[i] : i \in 1..10}

\* The character classes of the pattern r'^[a-zA-Z]\w*$'.
ClassLetter == LowerCase \cup UpperCase
ClassWord == LowerCase \cup UpperCase \cup Digit \cup {"_"}

\* \w* from position p (p characters consumed): every position the star
\* can stop at, longest first in the engine, all of them under backtracking.
RECURSIVE StarWord(_, _)
StarWord(s, p) ==
    {p} \cup (IF p < Len(s) /\ s[p + 1] \in ClassWord
              THEN StarWord(s, p + 1) ELSE {})

\* '$' without re.MULTILINE: at the end of the string, or just before a
\* newline that is the string's last character.
DollarAt(s, p) ==
    \/ p = Len(s)
    \/ p = Len(s) - 1 /\ s[Len(s)] = "\n"

\* The pattern with its '$' anchor left out: r'^[a-zA-Z]\w*'.
NAME_FORMAT_match_NoDollar(s) ==
    /\ Len(s) >= 1
    /\ s[1] \in ClassLetter

\* NAME_FORMAT.match(s) is not None.
NAME_FORMAT_match(s) ==
    /\ Len(s) >= 1
    /\ s[1] \in ClassLetter
    /\ \E p \in StarWord(s, 1) : DollarAt(s, p)

\* Name validation as the harness applies it to test and plot names: the
\* name is accepted, or InvalidNameError is raised.
validate_name(name) ==
    IF NAME_FORMAT_match(name) THEN "accepted" ELSE "InvalidNameError"

MaxNameLen == 3

\* The characters names are enumerated over: a lower- and an upper-case
\* letter, a digit, the underscore, the hyphen and the newline.
Alphabet == {"g", "Z", "1", "_", "-", "\n"}

StringsUpTo(n) == UNION {[1..k -> Alphabet] : k \in 0..n}

Name_geweke_mcmc1 ==
    <<"g", "e", "w", "e", "k", "e", "_", "m", "c", "m", "c", "1">>
Name_1geweke == <<"1", "g", "e", "w", "e", "k", "e">>
Name_geweke_hyphen_mcmc ==
    <<"g", "e", "w", "e", "k", "e", "-", "m", "c", "m", "c">>

NameInputs ==
    StringsUpTo(MaxNameLen)
        \cup {Name_geweke_mcmc1, Name_1geweke, Name_geweke_hyphen_mcmc}

NameInit ==
    /\ name_arg \in NameInputs
    /\ name_result = "unchecked"

ValidateName ==
    /\ name_result = "unchecked"
    /\ name_result' = validate_name(name_arg)
    /\ UNCHANGED name_arg
    /\ UNCHANGED exceptName

NameNext == ValidateName

InitNaming ==
    RevIdle /\ NameInit /\ IdIdle /\ RunIdle /\ DevIdle /\ GewIdle /\ WinIdle

SpecNaming == InitNaming /\ [][NameNext]_vars

\* A letter first, then only letters, digits and underscores.
LetterThenWordChars(s) ==
    /\ Len(s) >= 1
    /\ s[1] \in ClassLetter
    /\ \A i \in 2..Len(s) : s[i] \in ClassWord

OverClaimAlphabet(s) ==
    \A i \in 1..Len(s) : s[i] \in ClassWord \cup {"-"}

\* C2: for every name over letters, digits, underscore and hyphen,
\* validation accepts exactly the names made of a letter followed by
\* letters, digits and underscores; "geweke_mcmc1" is accepted, "1geweke"
\* and "geweke-mcmc" are rejected with InvalidNameError.
C2_NameValidation ==
    (name_result # "unchecked" /\ OverClaimAlphabet(name_arg)) =>
        /\ (name_result = "accepted") <=> LetterThenWordChars(name_arg)
        /\ (name_result = "InvalidNameError")
               <=> ~LetterThenWordChars(name_arg)
        /\ name_arg = Name_geweke_mcmc1 => name_result = "accepted"
        /\ name_arg \in {Name_1geweke, Name_geweke_hyphen_mcmc}
               => name_result = "InvalidNameError"

\* C2 witness: "geweke_mcmc1" has been validated and accepted.
C2_Witness ==
    /\ name_arg = Name_geweke_mcmc1
    /\ name_result = "accepted"

(***************************************************************************)
(* Test construction and test names                                        *)
(***************************************************************************)
MaxTests == 2

\* str(n) for an int n.
RECURSIVE DecimalDigits(_)
DecimalDigits(n) ==
    IF n < 10 THEN <<DigitChars[n + 1]>>
    ELSE DecimalDigits(n \div 10) \o <<DigitChars[(n % 10) + 1]>>

PyStr(n) == IF n < 0 THEN <<"-">> \o DecimalDigits(-n) ELSE DecimalDigits(n)

Prefix_mcmc_banana ==
    <<"m", "c", "m", "c", "_", "b", "a", "n", "a", "n", "a", "_">>
Prefix_geweke == <<"g", "e", "w", "e", "k", "e", "_", "m", "c", "m", "c">>

NamePrefix(cls) ==
    IF cls = "MCMCBanana" THEN Prefix_mcmc_banana ELSE Prefix_geweke

\* The name built without the '_' between method and chain count.
TestName_NoSeparator(cls, method, nchains) ==
    NamePrefix(cls) \o method \o PyStr(nchains)

\* name = prefix + self._method + '_' + str(self._nchains)
TestName(cls, method, nchains) ==
    NamePrefix(cls) \o method \o <<"_">> \o PyStr(nchains)

Classes == {"MCMCBanana", "Geweke"}
MethodNames == {<<"A">>, <<"A", "1">>, <<"A", "_", "1">>}
ChainCounts == {-1, 2, 12}
PassThresholds == {5, 10}
MaxIters == {200, 10000}

IdInit ==
    /\ tests = {}
    /\ ctor_error = FALSE

\* cls(method, nchains, pass_threshold, max_iter): stores the parameters,
\* builds the name and hands it to the base class, which validates it.
Construct ==
    /\ Cardinality(tests) < MaxTests
    /\ \E cls \in Classes, method \in MethodNames, nchains \in ChainCounts,
          pass_threshold \in PassThresholds, max_iter \in MaxIters :
         LET name == TestName(cls, method, nchains)
             t == [cls |-> cls, _method |-> method, _nchains |-> nchains,
                   _pass_threshold |-> pass_threshold,
                   _max_iter |-> max_iter, name |-> name]
         IN  IF validate_name(name) = "accepted"
             THEN tests' = tests \cup {t} /\ ctor_error' = FALSE
             ELSE tests' = tests /\ ctor_error' = TRUE
    /\ UNCHANGED exceptId

\* An instance is garbage-collected.
Discard ==
    /\ \E t \in tests : tests' = tests \ {t}
    /\ ctor_error' = FALSE
    /\ UNCHANGED exceptId

IdNext ==
    \/ Construct
    \/ Discard

InitIdentity ==
    RevIdle /\ NameIdle /\ IdInit /\ RunIdle /\ DevIdle /\ GewIdle /\ WinIdle

SpecIdentity == InitIdentity /\ [][IdNext]_vars

\* C7 as stated: two instances of one class with equal names were
\* constructed with the same method, nchains, pass_threshold and max_iter.
C7_NameDeterminesAllParameters ==
    \A t1 \in tests, t2 \in tests :
        (t1.cls = t2.cls /\ t1.name = t2.name) =>
            /\ t1._method = t2._method
            /\ t1._nchains = t2._nchains
            /\ t1._pass_threshold = t2._pass_threshold
            /\ t1._max_iter = t2._max_iter

\* C7 amended: two instances of one class with equal names were constructed
\* with the same method and the same nchains, the parameters the name is
\* built from.
C7_NameDeterminesMethodAndChains ==
    \A t1 \in tests, t2 \in tests :
        (t1.cls = t2.cls /\ t1.name = t2.name) =>
            /\ t1._method = t2._method
            /\ t1._nchains = t2._nchains

\* C7 witness: two different instances of one class share a name.
C7_Witness ==
    \E t1 \in tests, t2 \in tests :
        /\ t1 # t2
        /\ t1.cls = t2.cls
        /\ t1.name = t2.name

(***************************************************************************)
(* Running tests: the runner, the store, the tests' _run and _analyse      *)
(***************************************************************************)
MaxRuns == 3

\* Metric values are in hundredths: 5 is 0.05, 10 is 0.1, 20 is 0.2.
KldValues == {5, 10, 20}

\* The keys a result can hold besides 'status'.
DataKeys == {"method", "iters", "klds", "kld", "ess", "p-value"}
ResultKeys == DataKeys \cup {"status", "error", "commit", "date"}

TerminalStatuses == {"done", "failed", "errored"}

\* MCMCBanana._run with result['status'] = 'done' moved to its start.
MCMCBanana_run_writes_StatusFirst ==
    <<"status", "method", "iters", "klds", "kld", "ess">>

\* The keys MCMCBanana._run assigns, in program order. Everything between
\* two assignments (imports, the sampler run, the metric routines) is a call
\* that returns or raises.
MCMCBanana_run_writes ==
    <<"method", "iters", "klds", "kld", "ess", "status">>

\* The keys Geweke._run assigns, in program order.
Geweke_run_writes == <<"method", "p-value", "status">>

run_writes(t) ==
    IF t.cls = "MCMCBanana" THEN MCMCBanana_run_writes ELSE Geweke_run_writes

\* The values an assignment of _run can store under `key`.
WrittenValues(t, key) ==
    CASE key = "method" -> {Some(t._method)}
      [] key = "iters" -> {Some("iters")}
      [] key = "klds" -> {Some("klds")}
      [] key = "kld" -> {Some(v) : v \in KldValues}
      [] key = "ess" -> {Some("ess")}
      [] key = "p-value" -> {Some(0)}
      [] key = "status" -> {"done"}

Abs(x) == IF x < 0 THEN -x ELSE x

\* pfunk.assert_not_deviated_from(expected, threshold, results, field):
\* reads `field` from the latest result of the history and passes iff
\* abs(value - expected) <= threshold. An empty history passes.
assert_not_deviated_from(expected, threshold, results, field) ==
    IF results = <<>> THEN "pass"
    ELSE LET latest == results[Len(results)]
         IN  IF latest[field] = None THEN "MissingFieldError"
             ELSE IF Abs(latest[field][1] - expected) <= threshold
                  THEN "pass" ELSE "fail"

\* _analyse with the baseline and the tolerance handed over in each
\* other's place.
MCMCBanana_analyse_SwappedArgs(t, results) ==
    assert_not_deviated_from(t._pass_threshold, 0, results, "kld")

\* MCMCBanana._analyse:
\*   pfunk.assert_not_deviated_from(0, self._pass_threshold, results, 'kld')
MCMCBanana_analyse(t, results) ==
    assert_not_deviated_from(0, t._pass_threshold, results, "kld")

\* Geweke._analyse:
\*   pfunk.assert_not_deviated_from(0, self._pass_threshold, results, 'kld')
Geweke_analyse(t, results) ==
    assert_not_deviated_from(0, t._pass_threshold, results, "kld")

\* test.analyse(results): the _analyse of the test's class.
Test_analyse(t, results) ==
    IF t.cls = "MCMCBanana" THEN MCMCBanana_analyse(t, results)
    ELSE Geweke_analyse(t, results)

\* ResultStore.history(name): the stored history, empty for a test that
\* never ran.
history(st, name) == IF name \in DOMAIN st THEN st[name] ELSE <<>>

\* An append that replaces the latest record in place.
store_append_InPlace(st, name, r) ==
    [n \in DOMAIN st \cup {name} |->
        IF n # name THEN st[n]
        ELSE IF history(st, n) = <<>> THEN <<r>>
        ELSE [history(st, n) EXCEPT ![Len(history(st, n))] = r]]

\* ResultStore.append(name, result): adds the record at the end of the
\* test's history, creating the history on first use.
store_append(st, name, r) ==
    [n \in DOMAIN st \cup {name} |->
        IF n = name THEN Append(history(st, n), r) ELSE st[n]]

\* The record the runner stores for a run that ended in `how`.
Finalised(res, how) ==
    IF how = "raised"
        THEN [res EXCEPT !["status"] = "errored",
                         !["error"] = Some("exception")]
    ELSE IF res["status"] \notin TerminalStatuses
        THEN [res EXCEPT !["status"] = "errored",
                         !["error"] = Some("missing status")]
    ELSE res

\* The tests of one batch.
T_banana ==
    [cls |-> "MCMCBanana", _method |-> <<"A">>, _nchains |-> 2,
     _pass_threshold |-> 10, _max_iter |-> 10000,
     name |-> TestName("MCMCBanana", <<"A">>, 2)]
T_geweke ==
    [cls |-> "Geweke", _method |-> <<"A">>, _nchains |-> 2,
     _pass_threshold |-> 10, _max_iter |-> 200,
     name |-> TestName("Geweke", <<"A">>, 2)]
Batch == {T_banana, T_geweke}

TotalRuns(st) ==
    LET RECURSIVE Sum(_)
        Sum(S) == IF S = {} THEN 0
                  ELSE LET n == CHOOSE x \in S : TRUE
                       IN  Len(st[n]) + Sum(S \ {n})
    IN  Sum(DOMAIN st)

\* The runner starts a test: a fresh 'running' result tagged with the
\* frozen revision, then control passes to the test's _run.
StartRun ==
    /\ pc = "idle"
    /\ TotalRuns(store) < MaxRuns
    /\ PINTS_COMMIT # None
    /\ \E t \in tests :
         /\ cur' = Some(t)
         /\ start_len' = Len(history(store, t.name))
         /\ result' = [k \in ResultKeys |->
                          CASE k = "status" -> "running"
                            [] k = "commit" -> PINTS_COMMIT
                            [] k = "date" -> Some(clock)
                            [] OTHER -> None]
    /\ pc' = "running"
    /\ step' = 1
    /\ verdict' = "none"
    /\ run_exit' = "none"
    /\ UNCHANGED <<store, clock, seen, tests, ctor_error>>
    /\ UNCHANGED exceptRun

\* _run reaches its next assignment and performs it; after the last one it
\* returns.
RunWrite ==
    /\ pc = "running"
    /\ LET t == cur[1]
           key == run_writes(t)[step]
       IN  /\ \E v \in WrittenValues(t, key) :
                result' = [result EXCEPT ![key] = v]
           /\ step' = step + 1
           /\ pc' = IF step = Len(run_writes(t)) THEN "returned" ELSE "running"
    /\ UNCHANGED <<store, cur, start_len, clock, run_exit, verdict, seen,
                   tests, ctor_error>>
    /\ UNCHANGED exceptRun

\* A call made by _run before its next assignment raises.
RunRaise ==
    /\ pc = "running"
    /\ pc' = "raised"
    /\ UNCHANGED <<store, cur, result, step, start_len, clock, run_exit,
                   verdict, seen, tests, ctor_error>>
    /\ UNCHANGED exceptRun

\* The runner that lets the exception of _run propagate and stores nothing.
FinishRun_Propagate ==
    /\ pc \in {"returned", "raised"}
    /\ LET t == cur[1]
           final == Finalised(result, pc)
       IN  /\ store' = IF pc = "raised" THEN store
                       ELSE store_append(store, t.name, final)
           /\ verdict' = Test_analyse(t, history(store', t.name))
    /\ clock' = clock + 1
    /\ run_exit' = pc
    /\ pc' = "idle"
    /\ UNCHANGED <<cur, result, step, start_len, seen, tests, ctor_error>>
    /\ UNCHANGED exceptRun

\* The runner after _run returned or raised: finalise the result, append it
\* to the store once, analyse the updated history.
FinishRun ==
    /\ pc \in {"returned", "raised"}
    /\ LET t == cur[1]
           final == Finalised(result, pc)
       IN  /\ store' = store_append(store, t.name, final)
           /\ verdict' = Test_analyse(t, history(store', t.name))
    /\ clock' = clock + 1
    /\ run_exit' = pc
    /\ pc' = "idle"
    /\ UNCHANGED <<cur, result, step, start_len, seen, tests, ctor_error>>
    /\ UNCHANGED exceptRun

\* A reader (analysis, plotting) obtains the history of a test.
ReadHistory ==
    /\ pc = "idle"
    /\ \E t \in tests :
         seen' = [name |-> t.name, history |-> history(store, t.name)]
    /\ UNCHANGED <<store, pc, cur, result, step, start_len, clock, run_exit,
                   verdict, tests, ctor_error>>
    /\ UNCHANGED exceptRun

Init ==
    /\ RevIdle
    /\ NameIdle
    /\ tests = Batch
    /\ ctor_error = FALSE
    /\ RunIdle
    /\ DevIdle
    /\ GewIdle
    /\ WinIdle

Next ==
    \/ StartRun
    \/ RunWrite
    \/ RunRaise
    \/ FinishRun
    \/ ReadHistory

Spec == Init /\ [][Next]_vars

IsPrefix(a, b) ==
    /\ Len(a) <= Len(b)
    /\ \A i \in 1..Len(a) : a[i] = b[i]

C4_AnalyseFieldsPopulated ==
    /\ \A t \in tests :
         LET h == history(store, t.name)
         IN  \A i \in 1..Len(h) :
                 h[i]["status"] = "done" => h[i]["kld"] # None
    /\ (pc = "idle" /\ run_exit = "returned")
           => verdict # "MissingFieldError"

\* C6: a history obtained earlier is a prefix of the history stored now,
\* every stored record is terminal, and the records of a history are in the
\* order in which their runs completed.
C6_AppendOnlyOrdered ==
    /\ IsPrefix(seen.history, history(store, seen.name))
    /\ \A n \in DOMAIN store :
         /\ \A i \in 1..Len(store[n]) :
                store[n][i]["status"] \in TerminalStatuses
         /\ \A i \in 1..Len(store[n]), j \in 1..Len(store[n]) :
                i < j => store[n][i]["date"][1] < store[n][j]["date"][1]

\* C6 witness: records were appended to a history after a reader obtained
\* it non-empty.
C6_Witness ==
    /\ seen.history # <<>>
    /\ Len(history(store, seen.name)) >= Len(seen.history) + 2

\* The fields each test class writes besides 'status'.
FieldsBeforeStatus(t) ==
    IF t.cls = "MCMCBanana"
    THEN {"method", "iters", "klds", "kld", "ess"}
    ELSE {"method", "p-value"}

\* C8: while _run executes and after it ended, a result whose status is
\* 'done' holds every other field of its class and _run has returned; a
\* result whose _run raised never has status 'done'.
C8_StatusWrittenLast ==
    /\ (pc \in {"running", "returned", "raised"} /\ result["status"] = "done")
           => /\ pc = "returned"
              /\ \A k \in FieldsBeforeStatus(cur[1]) : result[k] # None
    /\ pc = "raised" => result["status"] # "done"
    /\ pc = "returned" => result["status"] = "done"

\* C8 witness: _run raised at its last step, with every field but 'status'
\* written.
C8_Witness ==
    /\ pc = "raised"
    /\ \A k \in FieldsBeforeStatus(cur[1]) : result[k] # None

(***************************************************************************)
(* The deviation check on given histories                                  *)
(***************************************************************************)
MaxHistory == 2

\* A stored result with the given status and 'kld' entry.
StoredResult(status, kld) ==
    [k \in ResultKeys |->
        CASE k = "status" -> status
          [] k = "kld" -> kld
          [] OTHER -> None]

\* Stored results as runs leave them: 'done' or 'errored', with or without
\* a 'kld' value.
StoredResults ==
    {StoredResult(st, kld) :
        st \in {"done", "errored"},
        kld \in {None} \cup {Some(v) : v \in KldValues}}

Histories == UNION {[1..n -> StoredResults] : n \in 0..MaxHistory}

DevInit ==
    /\ a_history \in Histories
    /\ a_expected \in {0, 15}
    /\ a_threshold \in {5, 10}
    /\ a_call = "none"
    /\ a_return = "none"

\* assert_not_deviated_from(expected, threshold, history, 'kld')
CallNotDeviated ==
    /\ a_call = "none"
    /\ a_call' = "not_deviated"
    /\ a_return' = assert_not_deviated_from(a_expected, a_threshold,
                                            a_history, "kld")
    /\ UNCHANGED <<a_history, a_expected, a_threshold>>
    /\ UNCHANGED exceptDev

\* MCMCBanana(method, nchains, pass_threshold)._analyse(history)
CallAnalyse ==
    /\ a_call = "none"
    /\ a_call' = "analyse"
    /\ a_return' = Test_analyse(
                       [T_banana EXCEPT !._pass_threshold = a_threshold],
                       a_history)
    /\ UNCHANGED <<a_history, a_expected, a_threshold>>
    /\ UNCHANGED exceptDev

DevNext ==
    \/ CallNotDeviated
    \/ CallAnalyse

InitAnalyse ==
    RevIdle /\ NameIdle /\ IdIdle /\ RunIdle /\ DevInit /\ GewIdle /\ WinIdle

SpecAnalyse == InitAnalyse /\ [][DevNext]_vars

LatestHasKld ==
    /\ a_history # <<>>
    /\ a_history[Len(a_history)]["kld"] # None

LatestKld == a_history[Len(a_history)]["kld"][1]

\* C5: the deviation check passes iff abs(value - expected) <= threshold,
\* value being 'kld' of the latest result of the history, whatever the
\* earlier results are; the boundary passes; with expected 0 and threshold
\* 0.1, as a test's _analyse calls it, a latest kld of 0.05 passes and 0.2
\* fails.
C5_NotDeviated ==
    /\ (a_call = "not_deviated" /\ LatestHasKld) =>
          /\ a_return \in {"pass", "fail"}
          /\ a_return = "pass"
                <=> Abs(LatestKld - a_expected) <= a_threshold
    /\ (a_call = "analyse" /\ LatestHasKld) =>
          /\ a_return \in {"pass", "fail"}
          /\ a_return = "pass" <=> Abs(LatestKld) <= a_threshold
          /\ a_threshold = 10 =>
                /\ LatestKld = 5 => a_return = "pass"
                /\ LatestKld = 10 => a_return = "pass"
                /\ LatestKld = 20 => a_return = "fail"

\* C5 witness: a test's _analyse with threshold 0.1 failed a history whose
\* latest kld is 0.2 and whose earlier kld, 0.05, is within tolerance.
C5_Witness ==
    /\ a_call = "analyse"
    /\ a_threshold = 10
    /\ Len(a_history) = 2
    /\ a_history[1]["kld"] = Some(5)
    /\ a_history[2]["kld"] = Some(20)
    /\ a_return = "fail"

(***************************************************************************)
(* Geweke._successive_conditional_simulator: the ask/tell protocol         *)
(***************************************************************************)
MaxChains == 3

\* self._initial_phase_iter
initial_phase_iter == 200

\* Sampler classes of the library under test, as Python class objects: the
\* classes a class derives from, and whether its samplers need an initial
\* phase.
SamplerClass(name, base, needs) ==
    [name |-> name, bases |-> {name, base, "MCMCSampler", "object"},
     needs_initial_phase |-> needs]

SamplerClasses ==
    {SamplerClass("SingleAdaptive", "SingleChainMCMC", TRUE),
     SamplerClass("SinglePlain", "SingleChainMCMC", FALSE),
     SamplerClass("MultiAdaptive", "MultiChainMCMC", TRUE),
     SamplerClass("MultiPlain", "MultiChainMCMC", FALSE)}

\* issubclass(obj, base), obj a class.
issubclass(obj, base) == base \in obj.bases

\* isinstance(obj, base), obj a class: a class object is an instance of
\* `type`, whose bases are type and object.
isinstance(obj, base) == base \in {"type", "object"}

\* What ask() of a sampler of class `method` returns: one position for each
\* chain of a multi-chain sampler, one position otherwise.
AskShape(method, nchains) ==
    IF issubclass(method, "MultiChainMCMC")
    THEN [kind |-> "positions", n |-> nchains]
    ELSE [kind |-> "position", n |-> 1]

\* [log_posterior(xi) for xi in x]
ListOfLogPosteriors(x) == [kind |-> "list", n |-> x.n]

\* log_posterior(x)
OneLogPosterior(x) == [kind |-> "scalar", n |-> 1]

GewInit ==
    /\ g_method \in {Some(m) : m \in SamplerClasses}
    /\ g_nchains \in 1..MaxChains
    /\ g_pc = "construct"
    /\ g_i = 0
    /\ g_x = None
    /\ g_ctor = None
    /\ g_initial_phase = FALSE
    /\ g_asks = 0
    /\ g_tells = 0
    /\ g_phase_pairs = 0
    /\ g_told = {}

\* Lines 67-71: mcmc = method(self._nchains, parameters) or
\* method(parameters).
GewConstruct ==
    /\ g_pc = "construct"
    /\ g_ctor' = IF issubclass(g_method[1], "MultiChainMCMC")
                 THEN Some("multi") ELSE Some("single")
    /\ g_pc' = "needs_initial_phase"
    /\ UNCHANGED <<g_method, g_nchains, g_i, g_x, g_initial_phase, g_asks,
                   g_tells, g_phase_pairs, g_told>>
    /\ UNCHANGED exceptGew

\* Lines 74-75: if mcmc.needs_initial_phase(): mcmc.set_initial_phase(True)
GewEnterPhase ==
    /\ g_pc = "needs_initial_phase"
    /\ IF g_method[1].needs_initial_phase
       THEN g_initial_phase' = TRUE /\ g_pc' = "phase_ask"
       ELSE g_initial_phase' = FALSE /\ g_pc' = "replace"
    /\ g_i' = 0
    /\ UNCHANGED <<g_method, g_nchains, g_x, g_ctor, g_asks, g_tells,
                   g_phase_pairs, g_told>>
    /\ UNCHANGED exceptGew

\* Lines 76-77: for i in range(self._initial_phase_iter): x = mcmc.ask()
GewPhaseAsk ==
    /\ g_pc = "phase_ask"
    /\ g_i < initial_phase_iter
    /\ g_x' = Some(AskShape(g_method[1], g_nchains))
    /\ g_asks' = g_asks + 1
    /\ g_pc' = "phase_tell"
    /\ UNCHANGED <<g_method, g_nchains, g_i, g_ctor, g_initial_phase,
                   g_tells, g_phase_pairs, g_told>>
    /\ UNCHANGED exceptGew

\* Lines 78-81: tell, dispatched on issubclass(method, MultiChainMCMC).
GewPhaseTell ==
    /\ g_pc = "phase_tell"
    /\ g_told' = g_told \cup
           {IF issubclass(g_method[1], "MultiChainMCMC")
            THEN ListOfLogPosteriors(g_x[1])
            ELSE OneLogPosterior(g_x[1])}
    /\ g_x' = None
    /\ g_tells' = g_tells + 1
    /\ g_phase_pairs' = g_phase_pairs + (IF g_initial_phase THEN 1 ELSE 0)
    /\ g_i' = g_i + 1
    /\ g_pc' = "phase_ask"
    /\ UNCHANGED <<g_method, g_nchains, g_ctor, g_initial_phase, g_asks>>
    /\ UNCHANGED exceptGew

\* Line 82: the loop is exhausted; mcmc.set_initial_phase(False)
GewLeavePhase ==
    /\ g_pc = "phase_ask"
    /\ g_i >= initial_phase_iter
    /\ g_initial_phase' = FALSE
    /\ g_pc' = "replace"
    /\ UNCHANGED <<g_method, g_nchains, g_i, g_x, g_ctor, g_asks, g_tells,
                   g_phase_pairs, g_told>>
    /\ UNCHANGED exceptGew

\* Lines 84-85: mcmc.replace(parameters, log_posterior(parameters));
\* x = mcmc.ask()
GewReplaceAsk ==
    /\ g_pc = "replace"
    /\ g_x' = Some(AskShape(g_method[1], g_nchains))
    /\ g_asks' = g_asks + 1
    /\ g_pc' = "final_tell"
    /\ UNCHANGED <<g_method, g_nchains, g_i, g_ctor, g_initial_phase,
                   g_tells, g_phase_pairs, g_told>>
    /\ UNCHANGED exceptGew

\* Lines 86-89: the final tell, dispatched on
\* isinstance(method, MultiChainMCMC).
GewFinalTell ==
    /\ g_pc = "final_tell"
    /\ g_told' = g_told \cup
           {IF isinstance(g_method[1], "MultiChainMCMC")
            THEN ListOfLogPosteriors(g_x[1])
            ELSE OneLogPosterior(g_x[1])}
    /\ g_x' = None
    /\ g_tells' = g_tells + 1
    /\ g_pc' = "done"
    /\ UNCHANGED <<g_method, g_nchains, g_i, g_ctor, g_initial_phase,
                   g_asks, g_phase_pairs>>
    /\ UNCHANGED exceptGew

GewNext ==
    \/ GewConstruct
    \/ GewEnterPhase
    \/ GewPhaseAsk
    \/ GewPhaseTell
    \/ GewLeavePhase
    \/ GewReplaceAsk
    \/ GewFinalTell

InitGeweke ==
    RevIdle /\ NameIdle /\ IdIdle /\ RunIdle /\ DevIdle /\ GewInit /\ WinIdle

SpecGeweke == InitGeweke /\ [][GewNext]_vars

\* The shape tell() must receive from a sampler of the given class.
ExpectedTold(method, nchains) ==
    IF "MultiChainMCMC" \in method.bases
    THEN [kind |-> "list", n |-> nchains]
    ELSE [kind |-> "scalar", n |-> 1]

\* C9: every tell() follows exactly one ask(); an initial phase, when
\* needed, is exactly 200 ask/tell pairs; and the sampler is constructed and
\* told as its class demands at every step: a MultiChainMCMC method is
\* built with nchains and every tell() receives one value per chain, a
\* single-chain method is built without and every tell() receives a scalar.
C9_AskTellProtocol ==
    /\ g_asks = g_tells + (IF g_x # None THEN 1 ELSE 0)
    /\ (g_pc \in {"replace", "final_tell", "done"} /\ g_method # None) =>
          g_phase_pairs = (IF g_method[1].needs_initial_phase
                           THEN initial_phase_iter ELSE 0)
    /\ g_ctor # None =>
          g_ctor = (IF "MultiChainMCMC" \in g_method[1].bases
                    THEN Some("multi") ELSE Some("single"))
    /\ \A a \in g_told : a = ExpectedTold(g_method[1], g_nchains)

(***************************************************************************)
(* MCMCBanana._run: the sliding windows of the 'klds' series               *)
(***************************************************************************)
MaxIterations == 560

\* n_window = 500 * self._nchains
WindowPerChain == 500

\* n_jump = 20 * self._nchains
JumpPerChain == 20

\* The default of max_iter.
DefaultMaxIter == 10000

\* list(range(start, stop, step)) for step > 0.
PyRange(start, stop, stride) ==
    LET n == IF stop > start THEN (stop - start + stride - 1) \div stride
             ELSE 0
    IN  [k \in 1..n |-> start + (k - 1) * stride]

\* len(seq[a:b]) for a sequence of n elements and 0 <= a, 0 <= b.
PySliceLen(n, a, b) == Max(0, Min(b, n) - Min(a, n))

WinInit ==
    /\ w_nchains \in 1..MaxChains
    /\ w_max_iter \in (0..MaxIterations) \cup {DefaultMaxIter}
    /\ w_pc = "start"
    /\ w_n_samples = 0
    /\ w_iters = <<>>
    /\ w_klds = <<>>

\* Lines 118-127: the sampler returned max_iter samples for each chain;
\* weave them, then compute the window starts and one KLD for each window.
ComputeWindows ==
    /\ w_pc = "start"
    /\ LET n_samples == w_max_iter * w_nchains
           n_window == WindowPerChain * w_nchains
           n_jump == JumpPerChain * w_nchains
           iters == PyRange(0, n_samples - n_window + n_jump, n_jump)
       IN  /\ w_n_samples' = n_samples
           /\ w_iters' = iters
           /\ w_klds' = [k \in 1..Len(iters) |->
                            PySliceLen(n_samples, iters[k],
                                       iters[k] + n_window)]
    /\ w_pc' = "done"
    /\ UNCHANGED <<w_nchains, w_max_iter>>
    /\ UNCHANGED exceptWin

WinNext == ComputeWindows

InitWindow ==
    RevIdle /\ NameIdle /\ IdIdle /\ RunIdle /\ DevIdle /\ GewIdle /\ WinInit

SpecWindow == InitWindow /\ [][WinNext]_vars

\* C10: every window start i of 'iters' satisfies 0 <= i and
\* i + n_window <= n_samples, so every window holds n_window samples;
\* 'iters' and 'klds' have the same length; and 'iters' is non-empty
\* whenever n_samples >= n_window.
C10_FullWindows ==
    w_pc = "done" =>
        LET n_window == 500 * w_nchains
        IN  /\ \A k \in 1..Len(w_iters) :
                   /\ 0 <= w_iters[k]
                   /\ w_iters[k] + n_window <= w_n_samples
                   /\ w_klds[k] = n_window
            /\ Len(w_iters) = Len(w_klds)
            /\ w_n_samples >= n_window => w_iters # <<>>

(***************************************************************************)
(* Revision resolution                                                     *)
(***************************************************************************)
MaxCommits == 3
MaxPrepareCalls == 4

\* pints.version(formatted=True) of the checked-out code: several commits
\* carry the same version string.
pints_version(head) == head \div 2

RevInit ==
    /\ PINTS_COMMIT = None
    /\ PINTS_VERSION = None
    /\ remote_head = 1
    /\ local_head = 0
    /\ refresh_calls = 0
    /\ hash_calls = 0
    /\ prepare_calls = 0

\* The upstream repository gains a commit (environment).
RemotePush ==
    /\ remote_head < MaxCommits
    /\ remote_head' = remote_head + 1
    /\ UNCHANGED <<PINTS_COMMIT, PINTS_VERSION, local_head, refresh_calls,
                   hash_calls, prepare_calls>>
    /\ UNCHANGED exceptRev

\* prepare_pints() with the `is None` guards dropped: resolves on every call.
prepare_pints_Unguarded ==
    /\ prepare_calls < MaxPrepareCalls
    /\ prepare_calls' = prepare_calls + 1
    /\ refresh_calls' = refresh_calls + 1
    /\ hash_calls' = hash_calls + 1
    /\ local_head' = remote_head
    /\ PINTS_COMMIT' = Some(remote_head)
    /\ PINTS_VERSION' = Some(pints_version(remote_head))
    /\ UNCHANGED remote_head
    /\ UNCHANGED exceptRev

\* prepare_pints(): one call, with the outcomes of its external calls
\* (git.pints_refresh() may raise; `import pints` / the path assertion may
\* raise) chosen nondeterministically.
prepare_pints ==
    /\ prepare_calls < MaxPrepareCalls
    /\ prepare_calls' = prepare_calls + 1
    /\ UNCHANGED remote_head
    /\ UNCHANGED exceptRev
    /\ \E refresh_ok \in BOOLEAN, import_ok \in BOOLEAN :
         LET need_commit == PINTS_COMMIT = None
             \* git.pints_refresh() brings the local checkout to the
             \* upstream head; git.pints_hash() returns the local head
             head1 == IF need_commit /\ refresh_ok THEN remote_head
                      ELSE local_head
             commit1 == IF need_commit /\ refresh_ok THEN Some(head1)
                        ELSE PINTS_COMMIT
             \* an exception in the first block leaves the function
             reached_version == ~need_commit \/ refresh_ok
             need_version == reached_version /\ PINTS_VERSION = None
         IN  /\ refresh_calls' = refresh_calls + (IF need_commit THEN 1 ELSE 0)
             /\ hash_calls' = hash_calls
                    + (IF need_commit /\ refresh_ok THEN 1 ELSE 0)
             /\ local_head' = head1
             /\ PINTS_COMMIT' = commit1
             /\ PINTS_VERSION' = IF need_version /\ import_ok
                                 THEN Some(pints_version(head1))
                                 ELSE PINTS_VERSION

RevNext ==
    \/ prepare_pints
    \/ RemotePush

InitRevision ==
    RevInit /\ NameIdle /\ IdIdle /\ RunIdle /\ DevIdle /\ GewIdle /\ WinIdle

SpecRevision == InitRevision /\ [][RevNext]_vars

\* C1: once a prepare_pints() call has set both PINTS_COMMIT and
\* PINTS_VERSION, no later step changes either value or invokes
\* git.pints_refresh() or git.pints_hash() again.
C1_RevisionFrozen ==
    [][(PINTS_COMMIT # None /\ PINTS_VERSION # None)
        => UNCHANGED <<PINTS_COMMIT, PINTS_VERSION, refresh_calls,
                       hash_calls>>]_vars

\* C1 witness: prepare_pints() was called again after the revision was
\* resolved, while upstream had moved on, and git was consulted only once.
C1_Witness ==
    /\ PINTS_COMMIT # None
    /\ PINTS_VERSION # None
    /\ prepare_calls >= 3
    /\ refresh_calls = 1
    /\ hash_calls = 1
    /\ remote_head # PINTS_COMMIT[1]

====
